---- MODULE Spec2Model ----
(***************************************************************************)
(* Model of the Playwright screenshot batch job: main_playwright.main, the *)
(* capture routine take_playwright_screenshot, the sheet helpers           *)
(* read_urls / is_url_processed / update_metadata, the Drive upload and    *)
(* the cookie translator load_playwright_cookies.                          *)
(*                                                                         *)
(* Strings are sequences of tokens (a token stands for a run of            *)
(* characters), so that strip() and startswith() are computed, not         *)
(* assumed.  Calls into the browser, the Sheets API, the Drive API and the *)
(* file system either succeed or raise; the outcome is drawn with \E and   *)
(* the code's try/except structure decides where a raise lands.            *)
(* page.close(), browser.close() and logging calls are taken not to raise. *)
(***************************************************************************)
EXTENDS Integers, Sequences, FiniteSets, TLC

\* Largest number of rows the Sheets API returns for URL_RANGE.
MaxRows == 3

\* Largest number of records in the cookie file.
MaxCookies == 2

----------------------------------------------------------------------------
\* Strings as token sequences

SPACE == " "

RECURSIVE LStrip(_)
\* str.lstrip(): drop leading whitespace tokens
LStrip(s) == IF s # <<>> /\ Head(s) = SPACE THEN LStrip(Tail(s)) ELSE s

RECURSIVE RStrip(_)
\* str.rstrip(): drop trailing whitespace tokens
RStrip(s) ==
    IF s # <<>> /\ s[Len(s)] = SPACE THEN RStrip(SubSeq(s, 1, Len(s) - 1)) ELSE s

\* str.strip()
Strip(s) == RStrip(LStrip(s))

\* str.startswith(prefix) for a one-token prefix
StartsWith(s, prefix) == s # <<>> /\ Head(s) = prefix

\* str.startswith((p1, p2, ...))
StartsWithAny(s, prefixes) == \E p \in prefixes : StartsWith(s, p)

----------------------------------------------------------------------------
\* Sample data

\* URL cells of column B
UrlFtp      == <<"ftp://", "x">>
UrlHttps    == <<SPACE, "https://", "x">>
UrlBracket  == <<"http://", "[", "x">>
URLS        == {UrlFtp, UrlHttps, UrlBracket}

\* Marker cells of column C
MarkerDrive == <<"https://drive.google.com", "/old">>
MarkerOther == <<"pending">>
MARKERS     == {MarkerDrive, MarkerOther}

\* webViewLink returned by the Drive API for an uploaded file
DriveLink   == <<"https://drive.google.com", "/new">>

\* URL_RANGE settings: sheet name and first row as the regex sees them
\* (sheet = "" stands for a range without "Sheet!" prefix).
URL_RANGES  == { [sheet |-> "Sheet1", row |-> 2], [sheet |-> "", row |-> 2] }

\* A row of the values().get() result: no cell (blank) or one cell.
UrlRows     == {<<>>} \cup { <<u>> : u \in URLS }
MarkerRows  == {<<>>} \cup { <<m>> : m \in MARKERS }

----------------------------------------------------------------------------
\* Pure helpers of the orchestrator and the sheet utilities

\* read_urls: [row[0] for row in values if row and row[0].strip()]
read_urls(values) ==
    LET kept == SelectSeq(values, LAMBDA r : r # <<>> /\ Strip(r[1]) # <<>>)
    IN  [k \in 1..Len(kept) |-> kept[k][1]]

\* main: "not url or not url.strip().startswith(('http://', 'https://'))"
InvalidUrl(u) == u = <<>> \/ ~StartsWithAny(Strip(u), {"http://", "https://"})

\* Mutant of LooksProcessed: the prefix is compared with the http:// form of
\* the link
LooksProcessedWrongPrefix(values) ==
    values # <<>> /\ StartsWith(Strip(values[1]), "http://drive.google.com")

\* is_url_processed: values and values[0] and
\* values[0][0].strip().startswith('https://drive.google.com')
LooksProcessed(values) ==
    values # <<>> /\ StartsWith(Strip(values[1]), "https://drive.google.com")

\* main: re.match(r'([^\'!]+)\![A-Z]+([0-9]+)', URL_RANGE)
RangeMatch(r) == r.sheet # ""

RECURSIVE TakeUntilSlash(_)
TakeUntilSlash(s) ==
    IF s = <<>> \/ Head(s) = "/" THEN <<>> ELSE <<Head(s)>> \o TakeUntilSlash(Tail(s))

\* urlparse(url).netloc for a URL that begins with its scheme
Netloc(u) ==
    IF StartsWithAny(u, {"http://", "https://", "ftp://"})
    THEN TakeUntilSlash(Tail(u)) ELSE <<>>

HasToken(s, t) == \E k \in 1..Len(s) : s[k] = t

\* generate_screenshot_filename: urlparse raises ValueError("Invalid IPv6 URL")
\* when the netloc holds one of "[" and "]" without the other
FilenameRaises(u) == HasToken(Netloc(u), "[") # HasToken(Netloc(u), "]")

----------------------------------------------------------------------------
\* Cookie records of the Selenium-format file.  A key that is missing is
\* "ABSENT", a JSON null is "NULL", a JSON value that is neither a string
\* nor null (a number, a boolean) is "NUM"; secure is "true", "false", "NULL"
\* or "ABSENT"; a domain is a token sequence, <<>> when the key is missing.

SameSiteStrings == {"strict", "Strict", "LAX", "None", "no_restriction"}

\* str.lower() on the sample strings
Lower(str) ==
    CASE str = "Strict" -> "strict"
      [] str = "LAX"    -> "lax"
      [] str = "None"   -> "none"
      [] OTHER          -> str

\* isinstance(x, str)
IsStr(x) == x \notin {"ABSENT", "NULL", "NUM"}

\* dict.get(key) is None
IsNone(x) == x \in {"ABSENT", "NULL"}

\* truth value of sc.get('secure', False)
Truthy(x) == x = "true"

\* Records that differ in name and value
NameValueCookies ==
    { [name |-> n, value |-> v, sameSite |-> "Strict", secure |-> "false",
       domain |-> <<"example.com">>] :
         n \in {"ABSENT", "", "sid"}, v \in {"ABSENT", "NULL", "", "v"} }

\* Records that differ in sameSite and secure
SameSiteCookies ==
    { [name |-> "sid", value |-> "v", sameSite |-> ss, secure |-> sec,
       domain |-> <<".", "example.com">>] :
         ss \in SameSiteStrings \cup {"ABSENT", "NULL", "NUM"},
         sec \in {"true", "false", "NULL", "ABSENT"} }

SeleniumCookies == NameValueCookies \cup SameSiteCookies

\* Mutant of CookieSkipped: the value is tested like the name
\* ("not sc.get('value')"), so an empty value is skipped too
CookieSkippedEmptyValue(sc) ==
    sc.name \in {"ABSENT", "NULL", ""} \/ sc.value \in {"ABSENT", "NULL", ""}

\* Lines 41-43: "if not sc.get('name') or sc.get('value') is None: continue"
CookieSkipped(sc) == sc.name \in {"ABSENT", "NULL", ""} \/ IsNone(sc.value)

\* Mutant of ValidSameSite: the string is compared without lower()
ValidSameSiteCaseSensitive(sc) ==
    IF IsStr(sc.sameSite)
    THEN CASE sc.sameSite = "strict" -> "Strict"
           [] sc.sameSite = "lax"    -> "Lax"
           [] sc.sameSite = "none"   -> "None"
           [] OTHER                  -> "Lax"
    ELSE IF IsNone(sc.sameSite)
         THEN IF Truthy(sc.secure) THEN "None" ELSE "Lax"
         ELSE "Lax"

\* Lines 45-58: the sameSite value handed to Playwright
ValidSameSite(sc) ==
    IF IsStr(sc.sameSite)
    THEN CASE Lower(sc.sameSite) = "strict" -> "Strict"
           [] Lower(sc.sameSite) = "lax"    -> "Lax"
           [] Lower(sc.sameSite) = "none"   -> "None"
           [] OTHER                         -> "Lax"
    ELSE IF IsNone(sc.sameSite)
         THEN IF Truthy(sc.secure) THEN "None" ELSE "Lax"
         ELSE "Lax"

\* Lines 72-73: a leading "." of the domain is dropped
NormalDomain(d) == IF StartsWith(d, ".") THEN Tail(d) ELSE d

\* Lines 60-73: the Playwright record (path, httpOnly and expires are carried
\* over unchanged and are left out)
PlaywrightCookie(sc) ==
    [name |-> sc.name, value |-> sc.value, domain |-> NormalDomain(sc.domain),
     secure |-> IF sc.secure = "ABSENT" THEN "false" ELSE sc.secure,
     sameSite |-> ValidSameSite(sc)]

----------------------------------------------------------------------------
VARIABLES
    URL_RANGE,              \* configuration: the range setting
    colB,                   \* values().get() result for URL_RANGE
    colC,                   \* marker cells, by sheet row number
    pc,                     \* position in main / take_playwright_screenshot
    playwright_manager,     \* "None", "running", "stopped"
    browser,                \* "None", "running", "closed"
    urls_to_process,
    locals_bound,           \* total_urls and the three counters are assigned
    total_urls,
    successful_screenshots,
    failed_screenshots,
    skipped_urls,
    current_loop_index,     \* i + 1 of the row in progress (0 before the loop)
    page,                   \* local of take_playwright_screenshot
    open_pages,             \* pages of the browser context currently open
    capture_exc,            \* exception caught in take_playwright_screenshot
    call,                   \* history of the capture call, until main read its result
    screenshot_success,
    web_link,
    files,                  \* files in SCREENSHOTS_DIR: <<loop index, kind>>
    delays,                 \* number of time.sleep(INTER_URL_DELAY_SECONDS) done
    row,                    \* history of the row in progress (marker_read
                            \* is kept until the file name is generated)
    main_exit,              \* how main left its try block
    cookie_pc,              \* position in load_playwright_cookies
    selenium_cookies,       \* the list read from the cookie file
    cookie_pos,             \* records of selenium_cookies already visited
    playwright_cookies,     \* records translated so far
    cookie_src,             \* for each translated record, its source record
    context_cookies         \* cookies added to the browser context

mainVars == <<URL_RANGE, colB, colC, pc, playwright_manager, browser,
              urls_to_process, locals_bound, total_urls, successful_screenshots,
              failed_screenshots, skipped_urls, current_loop_index, page,
              open_pages, capture_exc, call, screenshot_success, web_link,
              files, delays, row, main_exit>>
cookieVars == <<cookie_pc, selenium_cookies, cookie_pos, playwright_cookies,
                cookie_src, context_cookies>>
vars == <<mainVars, cookieVars>>

counters == <<total_urls, successful_screenshots, failed_screenshots, skipped_urls>>
sheet == <<URL_RANGE, colB, colC>>
captureVars == <<page, open_pages, capture_exc, call, screenshot_success>>

\* History of a row before anything happened to it
\* (counted: increments of a counter; capture, upload, write, delete: calls
\* made; base_*: the counters when the row started)
FreshRow == [url |-> <<>>, sheet_row |-> 0, outcome |-> "none", counted |-> 0,
             marker_read |-> "none", capture |-> 0, upload |-> 0, write |-> 0,
             delete |-> 0, upload_ok |-> FALSE, write_ok |-> FALSE,
             slept |-> FALSE, base_successful |-> 0, base_failed |-> 0,
             base_skipped |-> 0]

\* History of a take_playwright_screenshot call before its first step
FreshCall == [new_page |-> "none", goto |-> "none", click |-> "none",
              probe |-> "none", shot |-> "none", error_shot |-> "none"]

\* The value lists the Sheets API can return: no trailing blank row
SheetValues ==
    UNION { { v \in [1..n -> UrlRows] : n > 0 => v[n] # <<>> } : n \in 0..MaxRows }

\* The state when main enters its try block (line 76); the cookie translator
\* is checked on its own (SpecCookies) and stands still here
Init ==
    /\ URL_RANGE \in URL_RANGES
    /\ colB \in SheetValues
    /\ colC \in [URL_RANGE.row .. (URL_RANGE.row + Len(colB) - 1) -> MarkerRows]
    /\ pc = "init_services"
    /\ playwright_manager = "None"
    /\ browser = "None"
    /\ urls_to_process = <<>>
    /\ locals_bound = FALSE
    /\ total_urls = 0
    /\ successful_screenshots = 0
    /\ failed_screenshots = 0
    /\ skipped_urls = 0
    /\ current_loop_index = 0
    /\ page = "None"
    /\ open_pages = 0
    /\ capture_exc = "none"
    /\ call = FreshCall
    /\ screenshot_success = FALSE
    /\ web_link = <<>>
    /\ files = {}
    /\ delays = 0
    /\ row = FreshRow
    /\ main_exit = "none"
    /\ cookie_pc = "idle"
    /\ selenium_cookies = <<>>
    /\ cookie_pos = 0
    /\ playwright_cookies = <<>>
    /\ cookie_src = <<>>
    /\ context_cookies = <<>>

----------------------------------------------------------------------------
\* main: start-up (lines 76-131)

\* get_drive_service / get_sheets_service: both re-raise on failure
InitServices ==
    /\ pc = "init_services"
    /\ \E ok \in BOOLEAN :
         pc' = IF ok THEN "init_browser" ELSE "except_main"
    /\ UNCHANGED <<sheet, playwright_manager, browser, urls_to_process,
                   locals_bound, counters, current_loop_index, captureVars,
                   web_link, files, delays, row, main_exit, cookieVars>>

\* sync_playwright().start(), chromium.launch(), browser.new_context()
InitBrowser ==
    /\ pc = "init_browser"
    /\ \E reached \in {"start_raises", "launch_raises", "context_raises", "ok"} :
         /\ playwright_manager' =
               IF reached = "start_raises" THEN "None" ELSE "running"
         /\ browser' =
               IF reached \in {"start_raises", "launch_raises"} THEN "None"
               ELSE "running"
         /\ pc' = IF reached = "ok" THEN "read_urls" ELSE "except_main"
    /\ UNCHANGED <<sheet, urls_to_process, locals_bound, counters,
                   current_loop_index, captureVars, web_link, files, delays,
                   row, main_exit, cookieVars>>

\* read_urls (an API error gives []), the empty-list return, the assignment
\* of total_urls and the counters, and the parse of URL_RANGE
ReadUrls ==
    /\ pc = "read_urls"
    /\ \E api_ok \in BOOLEAN :
         LET urls == IF api_ok THEN read_urls(colB) ELSE <<>> IN
         /\ urls_to_process' = urls
         /\ IF urls = <<>>
            THEN /\ pc' = "finally"
                 /\ main_exit' = "no_urls"
                 /\ UNCHANGED <<locals_bound, counters>>
            ELSE /\ locals_bound' = TRUE
                 /\ total_urls' = Len(urls)
                 /\ successful_screenshots' = 0
                 /\ failed_screenshots' = 0
                 /\ skipped_urls' = 0
                 /\ pc' = IF RangeMatch(URL_RANGE) THEN "for" ELSE "finally"
                 /\ main_exit' = IF RangeMatch(URL_RANGE) THEN "none"
                                 ELSE "bad_range"
    /\ UNCHANGED <<sheet, playwright_manager, browser, current_loop_index,
                   captureVars, web_link, files, delays, row, cookieVars>>

----------------------------------------------------------------------------
\* main: the loop over urls_to_process (lines 133-198)

\* "for i, url in enumerate(urls_to_process)": take the next row or leave
ForNext ==
    /\ pc = "for"
    /\ IF current_loop_index < Len(urls_to_process)
       THEN /\ current_loop_index' = current_loop_index + 1
            /\ row' = [FreshRow EXCEPT
                         !.url = urls_to_process[current_loop_index + 1],
                         !.sheet_row = URL_RANGE.row + current_loop_index,
                         !.base_successful = successful_screenshots,
                         !.base_failed = failed_screenshots,
                         !.base_skipped = skipped_urls]
            /\ pc' = "validate"
            /\ UNCHANGED main_exit
       ELSE /\ pc' = "finally"
            /\ main_exit' = "loop_done"
            /\ UNCHANGED <<current_loop_index, row>>
    /\ UNCHANGED <<sheet, playwright_manager, browser, urls_to_process,
                   locals_bound, counters, captureVars, web_link, files,
                   delays, cookieVars>>

\* Basic URL validation (lines 140-146): an invalid URL is counted as failed
\* and the loop continues
ValidateUrl ==
    /\ pc = "validate"
    /\ IF InvalidUrl(row.url)
       THEN /\ failed_screenshots' = failed_screenshots + 1
            /\ row' = [row EXCEPT !.outcome = "invalid", !.counted = @ + 1]
            /\ pc' = "for"
       ELSE /\ pc' = "check_processed"
            /\ UNCHANGED <<failed_screenshots, row>>
    /\ UNCHANGED <<sheet, playwright_manager, browser, urls_to_process,
                   locals_bound, total_urls, successful_screenshots,
                   skipped_urls, current_loop_index, captureVars, web_link,
                   files, delays, main_exit, cookieVars>>

\* is_url_processed on column C of current_sheet_row (lines 148-155); a failed
\* read is caught inside is_url_processed and answers False
is_url_processed ==
    /\ pc = "check_processed"
    /\ \E read_ok \in BOOLEAN :
         LET processed == read_ok /\ LooksProcessed(colC[row.sheet_row]) IN
         IF processed
         THEN /\ skipped_urls' = skipped_urls + 1
              /\ row' = [row EXCEPT !.outcome = "skipped", !.counted = @ + 1,
                                    !.marker_read = "ok"]
              /\ pc' = "for"
         ELSE /\ row' = [row EXCEPT
                           !.marker_read = IF read_ok THEN "ok" ELSE "raised"]
              /\ pc' = "gen_filename"
              /\ UNCHANGED skipped_urls
    /\ UNCHANGED <<sheet, playwright_manager, browser, urls_to_process,
                   locals_bound, total_urls, successful_screenshots,
                   failed_screenshots, current_loop_index, captureVars,
                   web_link, files, delays, main_exit, cookieVars>>

\* generate_screenshot_filename (line 157): a ValueError from urlparse is not
\* caught in the loop and lands in main's "except Exception"; otherwise
\* take_playwright_screenshot is called (line 160)
generate_screenshot_filename ==
    /\ pc = "gen_filename"
    /\ IF FilenameRaises(row.url)
       THEN /\ pc' = "except_main"
            /\ row' = [row EXCEPT !.outcome = "raised", !.marker_read = "none"]
       ELSE /\ pc' = "new_page"
            /\ row' = [row EXCEPT !.capture = @ + 1, !.marker_read = "none"]
    /\ UNCHANGED <<sheet, playwright_manager, browser, urls_to_process,
                   locals_bound, counters, current_loop_index, captureVars,
                   web_link, files, delays, main_exit, cookieVars>>

----------------------------------------------------------------------------
\* take_playwright_screenshot (playwright_utils.py lines 86-145)

\* Variables no step of take_playwright_screenshot changes
captureFrame == <<sheet, playwright_manager, browser, urls_to_process,
                  locals_bound, counters, current_loop_index, web_link,
                  delays, row, main_exit, cookieVars>>

\* "page = None" and "page = context_to_use.new_page()" (lines 92-95)
NewPage ==
    /\ pc = "new_page"
    /\ screenshot_success' = FALSE
    /\ \E outcome \in {"ok", "timeout", "error"} :
         /\ call' = [FreshCall EXCEPT !.new_page = outcome]
         /\ IF outcome = "ok"
            THEN /\ page' = "open"
                 /\ open_pages' = open_pages + 1
                 /\ capture_exc' = "none"
                 /\ pc' = "goto"
            ELSE /\ page' = "None"
                 /\ capture_exc' = outcome
                 /\ pc' = "capture_except"
                 /\ UNCHANGED open_pages
    /\ UNCHANGED <<captureFrame, files>>

\* page.goto(url, timeout=timeout_ms) (line 98); "closed" is an error that
\* leaves the page closed (the page crashed or was closed under the call)
Goto ==
    /\ pc = "goto"
    /\ \E outcome \in {"ok", "timeout", "error", "closed"} :
         /\ call' = [call EXCEPT !.goto = outcome]
         /\ pc' = IF outcome = "ok" THEN "consent_click" ELSE "capture_except"
         /\ capture_exc' = CASE outcome = "ok" -> "none"
                             [] outcome = "timeout" -> "timeout"
                             [] OTHER -> "error"
         /\ page' = IF outcome = "closed" THEN "closed" ELSE page
         /\ open_pages' = IF outcome = "closed" THEN open_pages - 1 ELSE open_pages
    /\ UNCHANGED <<captureFrame, files, screenshot_success>>

\* Mutant of ConsentClick: only the timeout is caught, any other error of
\* the click reaches the outer except clause
ConsentClickErrorPropagates ==
    /\ pc = "consent_click"
    /\ \E outcome \in {"ok", "timeout", "error"} :
         /\ call' = [call EXCEPT !.click = outcome]
         /\ pc' = IF outcome = "error" THEN "capture_except" ELSE "dimensions"
         /\ capture_exc' = IF outcome = "error" THEN "error" ELSE capture_exc
    /\ UNCHANGED <<captureFrame, files, page, open_pages, screenshot_success>>

\* The cookie-consent click and wait (lines 102-111): both except clauses
\* log and fall through
ConsentClick ==
    /\ pc = "consent_click"
    /\ \E outcome \in {"ok", "timeout", "error"} :
         call' = [call EXCEPT !.click = outcome]
    /\ pc' = "dimensions"
    /\ UNCHANGED <<captureFrame, files, page, open_pages, capture_exc,
                   screenshot_success>>

\* The page-dimension probe (lines 114-118): an error is logged and ignored
Dimensions ==
    /\ pc = "dimensions"
    /\ \E outcome \in {"ok", "error"} :
         call' = [call EXCEPT !.probe = outcome]
    /\ pc' = "screenshot"
    /\ UNCHANGED <<captureFrame, files, page, open_pages, capture_exc,
                   screenshot_success>>

\* page.screenshot(path=output_path, full_page=True) and "return True"
\* (lines 120-123)
Screenshot ==
    /\ pc = "screenshot"
    /\ \E outcome \in {"ok", "timeout", "error"} :
         /\ call' = [call EXCEPT !.shot = outcome]
         /\ IF outcome = "ok"
            THEN /\ files' = files \cup {<<current_loop_index, "shot">>}
                 /\ screenshot_success' = TRUE
                 /\ pc' = "capture_finally"
                 /\ UNCHANGED capture_exc
            ELSE /\ capture_exc' = outcome
                 /\ pc' = "capture_except"
                 /\ UNCHANGED <<files, screenshot_success>>
    /\ UNCHANGED <<captureFrame, page, open_pages>>

\* "except PlaywrightTimeoutError" / "except Exception" (lines 124-141): the
\* best-effort error screenshot to error_<name>, then "return False"
CaptureExcept ==
    /\ pc = "capture_except"
    /\ IF page = "open"
       THEN \E saved \in BOOLEAN :
              /\ files' = IF saved
                          THEN files \cup {<<current_loop_index, "error">>}
                          ELSE files
              /\ call' = [call EXCEPT
                            !.error_shot = IF saved THEN "ok" ELSE "error"]
       ELSE UNCHANGED <<files, call>>
    /\ screenshot_success' = FALSE
    /\ pc' = "capture_finally"
    /\ UNCHANGED <<captureFrame, page, open_pages, capture_exc>>

\* Mutant of CaptureFinally: the page is closed at the end of the try block
\* only, not in a finally clause
CaptureFinallyCloseOnSuccessOnly ==
    /\ pc = "capture_finally"
    /\ IF page = "open" /\ screenshot_success
       THEN /\ page' = "closed"
            /\ open_pages' = open_pages - 1
       ELSE UNCHANGED <<page, open_pages>>
    /\ pc' = "captured"
    /\ UNCHANGED <<captureFrame, files, call, capture_exc, screenshot_success>>

\* "finally: if page and not page.is_closed(): page.close()" (lines 142-145),
\* then the return to main
CaptureFinally ==
    /\ pc = "capture_finally"
    /\ IF page = "open"
       THEN /\ page' = "closed"
            /\ open_pages' = open_pages - 1
       ELSE UNCHANGED <<page, open_pages>>
    /\ pc' = "captured"
    /\ UNCHANGED <<captureFrame, files, call, capture_exc, screenshot_success>>

----------------------------------------------------------------------------
\* main: after the capture (lines 162-198)

\* Mutant of CaptureFailed: the failed capture is logged but not counted
CaptureFailedUncounted ==
    /\ pc = "captured"
    /\ ~screenshot_success
    /\ row' = [row EXCEPT !.outcome = "capture_failed"]
    /\ pc' = "delay"
    /\ page' = "None"
    /\ capture_exc' = "none"
    /\ call' = FreshCall
    /\ UNCHANGED <<sheet, playwright_manager, browser, urls_to_process,
                   locals_bound, counters, current_loop_index, open_pages,
                   screenshot_success, web_link, files, delays, main_exit,
                   cookieVars>>

\* The "else" branch of "if screenshot_success" (lines 189-193)
CaptureFailed ==
    /\ pc = "captured"
    /\ ~screenshot_success
    /\ failed_screenshots' = failed_screenshots + 1
    /\ row' = [row EXCEPT !.outcome = "capture_failed", !.counted = @ + 1]
    /\ pc' = "delay"
    /\ page' = "None"
    /\ capture_exc' = "none"
    /\ call' = FreshCall
    /\ UNCHANGED <<sheet, playwright_manager, browser, urls_to_process,
                   locals_bound, total_urls, successful_screenshots,
                   skipped_urls, current_loop_index, open_pages,
                   screenshot_success, web_link, files, delays, main_exit,
                   cookieVars>>

\* gdrive_utils.upload_file (line 168): raises when the file is missing or
\* the API call fails; main's except clause counts the row as failed
upload_file ==
    /\ pc = "captured"
    /\ screenshot_success
    /\ \E api_ok \in BOOLEAN :
         IF api_ok /\ <<current_loop_index, "shot">> \in files
         THEN /\ web_link' = DriveLink
              /\ row' = [row EXCEPT !.upload = @ + 1, !.upload_ok = TRUE]
              /\ pc' = "update_sheet"
              /\ UNCHANGED failed_screenshots
         ELSE /\ failed_screenshots' = failed_screenshots + 1
              /\ row' = [row EXCEPT !.upload = @ + 1,
                                    !.outcome = "upload_failed",
                                    !.counted = @ + 1]
              /\ pc' = "cleanup"
              /\ UNCHANGED web_link
    /\ page' = "None"
    /\ capture_exc' = "none"
    /\ call' = FreshCall
    /\ UNCHANGED <<sheet, playwright_manager, browser, urls_to_process,
                   locals_bound, total_urls, successful_screenshots,
                   skipped_urls, current_loop_index, open_pages,
                   screenshot_success, files, delays, main_exit, cookieVars>>

\* Mutant of update_metadata: the success counter is incremented before the
\* sheet write instead of after it
update_metadata_counted_before_write ==
    /\ pc = "update_sheet"
    /\ successful_screenshots' = successful_screenshots + 1
    /\ \E api_ok \in BOOLEAN :
         IF api_ok
         THEN /\ colC' = [colC EXCEPT ![row.sheet_row] = <<web_link>>]
              /\ row' = [row EXCEPT !.write = @ + 1, !.write_ok = TRUE,
                                    !.outcome = "success", !.counted = @ + 1]
              /\ UNCHANGED failed_screenshots
         ELSE /\ failed_screenshots' = failed_screenshots + 1
              /\ row' = [row EXCEPT !.write = @ + 1,
                                    !.outcome = "write_failed",
                                    !.counted = @ + 2]
              /\ UNCHANGED colC
    /\ pc' = "cleanup"
    /\ UNCHANGED <<URL_RANGE, colB, playwright_manager, browser,
                   urls_to_process, locals_bound, total_urls, skipped_urls,
                   current_loop_index, captureVars, web_link, files, delays,
                   main_exit, cookieVars>>

\* gsheet_utils.update_metadata on <sheet>!C<current_sheet_row> (lines
\* 171-176): re-raises on failure; main's except clause counts the row failed
update_metadata ==
    /\ pc = "update_sheet"
    /\ \E api_ok \in BOOLEAN :
         IF api_ok
         THEN /\ colC' = [colC EXCEPT ![row.sheet_row] = <<web_link>>]
              /\ successful_screenshots' = successful_screenshots + 1
              /\ row' = [row EXCEPT !.write = @ + 1, !.write_ok = TRUE,
                                    !.outcome = "success", !.counted = @ + 1]
              /\ UNCHANGED failed_screenshots
         ELSE /\ failed_screenshots' = failed_screenshots + 1
              /\ row' = [row EXCEPT !.write = @ + 1,
                                    !.outcome = "write_failed",
                                    !.counted = @ + 1]
              /\ UNCHANGED <<colC, successful_screenshots>>
    /\ pc' = "cleanup"
    /\ UNCHANGED <<URL_RANGE, colB, playwright_manager, browser,
                   urls_to_process, locals_bound, total_urls, skipped_urls,
                   current_loop_index, captureVars, web_link, files, delays,
                   main_exit, cookieVars>>

\* Mutant of Cleanup: the delete sits at the end of the try block, so it is
\* reached only when upload and sheet write both succeeded
CleanupAfterSuccessOnly ==
    /\ pc = "cleanup"
    /\ IF <<current_loop_index, "shot">> \in files /\ row.outcome = "success"
       THEN \E removed \in BOOLEAN :
              /\ files' = IF removed
                          THEN files \ {<<current_loop_index, "shot">>}
                          ELSE files
              /\ row' = [row EXCEPT !.delete = @ + 1]
       ELSE UNCHANGED <<files, row>>
    /\ pc' = "delay"
    /\ UNCHANGED <<sheet, playwright_manager, browser, urls_to_process,
                   locals_bound, counters, current_loop_index, captureVars,
                   web_link, delays, main_exit, cookieVars>>

\* "finally: if os.path.exists(screenshot_path): os.remove(...)" (lines
\* 182-188): an OSError from os.remove is logged and the file stays
Cleanup ==
    /\ pc = "cleanup"
    /\ IF <<current_loop_index, "shot">> \in files
       THEN \E removed \in BOOLEAN :
              /\ files' = IF removed
                          THEN files \ {<<current_loop_index, "shot">>}
                          ELSE files
              /\ row' = [row EXCEPT !.delete = @ + 1]
       ELSE UNCHANGED <<files, row>>
    /\ pc' = "delay"
    /\ UNCHANGED <<sheet, playwright_manager, browser, urls_to_process,
                   locals_bound, counters, current_loop_index, captureVars,
                   web_link, delays, main_exit, cookieVars>>

\* "if current_loop_index < total_urls: time.sleep(...)" (lines 195-198)
Delay ==
    /\ pc = "delay"
    /\ IF current_loop_index < total_urls
       THEN /\ delays' = delays + 1
            /\ row' = [row EXCEPT !.slept = TRUE]
       ELSE UNCHANGED <<delays, row>>
    /\ pc' = "for"
    /\ UNCHANGED <<sheet, playwright_manager, browser, urls_to_process,
                   locals_bound, counters, current_loop_index, captureVars,
                   web_link, files, main_exit, cookieVars>>

----------------------------------------------------------------------------
\* main: the end (lines 200-227)

\* "except Exception as e_main" (lines 200-203)
ExceptMain ==
    /\ pc = "except_main"
    /\ main_exit' = "exception"
    /\ pc' = "finally"
    /\ UNCHANGED <<sheet, playwright_manager, browser, urls_to_process,
                   locals_bound, counters, current_loop_index, captureVars,
                   web_link, files, delays, row, cookieVars>>

\* "finally" (lines 204-227): close the browser, stop the manager, then the
\* summary, which reads total_urls and the counters; reading them before
\* they were assigned raises UnboundLocalError out of main
Finally ==
    /\ pc = "finally"
    /\ browser' = IF browser = "running" THEN "closed" ELSE browser
    /\ playwright_manager' =
          IF playwright_manager = "running" THEN "stopped" ELSE playwright_manager
    /\ pc' = IF locals_bound THEN "summary" ELSE "unbound_error"
    /\ UNCHANGED <<sheet, urls_to_process, locals_bound, counters,
                   current_loop_index, captureVars, web_link, files, delays,
                   row, main_exit, cookieVars>>

Next ==
    \/ InitServices
    \/ InitBrowser
    \/ ReadUrls
    \/ ForNext
    \/ ValidateUrl
    \/ is_url_processed
    \/ generate_screenshot_filename
    \/ NewPage
    \/ Goto
    \/ ConsentClick
    \/ Dimensions
    \/ Screenshot
    \/ CaptureExcept
    \/ CaptureFinally
    \/ CaptureFailed
    \/ upload_file
    \/ update_metadata
    \/ Cleanup
    \/ Delay
    \/ ExceptMain
    \/ Finally

Spec == Init /\ [][Next]_vars

----------------------------------------------------------------------------
\* load_playwright_cookies (playwright_utils.py lines 24-84)

\* The cookie lists the file can hold
CookieFiles == UNION { [1..n -> SeleniumCookies] : n \in 0..MaxCookies }

\* The translator starts with the list of the file; it reads and writes no
\* variable of main, which stand still at their values when main calls it
CookiesInit ==
    /\ cookie_pc = "load"
    /\ selenium_cookies \in CookieFiles
    /\ cookie_pos = 0
    /\ playwright_cookies = <<>>
    /\ cookie_src = <<>>
    /\ context_cookies = <<>>
    /\ URL_RANGE = [sheet |-> "Sheet1", row |-> 2]
    /\ colB = <<>>
    /\ colC = <<>>
    /\ pc = "init_browser"
    /\ playwright_manager = "running"
    /\ browser = "running"
    /\ urls_to_process = <<>>
    /\ locals_bound = FALSE
    /\ total_urls = 0
    /\ successful_screenshots = 0
    /\ failed_screenshots = 0
    /\ skipped_urls = 0
    /\ current_loop_index = 0
    /\ page = "None"
    /\ open_pages = 0
    /\ capture_exc = "none"
    /\ call = FreshCall
    /\ screenshot_success = FALSE
    /\ web_link = <<>>
    /\ files = {}
    /\ delays = 0
    /\ row = FreshRow
    /\ main_exit = "none"

\* Lines 28-37: the file is missing, is not JSON (the outer except logs it),
\* is not a list, or is a list
LoadCookieFile ==
    /\ cookie_pc = "load"
    /\ \E found \in {"missing", "not_json", "not_a_list", "list"} :
         cookie_pc' = IF found = "list" THEN "translate" ELSE "done"
    /\ UNCHANGED <<mainVars, selenium_cookies, cookie_pos, playwright_cookies,
                   cookie_src, context_cookies>>

\* One turn of "for sc in selenium_cookies" (lines 40-75)
TranslateCookie ==
    /\ cookie_pc = "translate"
    /\ cookie_pos < Len(selenium_cookies)
    /\ LET sc == selenium_cookies[cookie_pos + 1] IN
         IF CookieSkipped(sc)
         THEN UNCHANGED <<playwright_cookies, cookie_src>>
         ELSE /\ playwright_cookies' = Append(playwright_cookies, PlaywrightCookie(sc))
              /\ cookie_src' = Append(cookie_src, sc)
    /\ cookie_pos' = cookie_pos + 1
    /\ UNCHANGED <<mainVars, cookie_pc, selenium_cookies, context_cookies>>

\* Lines 77-84: add_cookies when the list is not empty; an error it raises is
\* logged by the outer except clause
AddCookies ==
    /\ cookie_pc = "translate"
    /\ cookie_pos = Len(selenium_cookies)
    /\ IF playwright_cookies # <<>>
       THEN \E accepted \in BOOLEAN :
              context_cookies' = IF accepted THEN playwright_cookies ELSE <<>>
       ELSE UNCHANGED context_cookies
    /\ cookie_pc' = "done"
    /\ UNCHANGED <<mainVars, selenium_cookies, cookie_pos, playwright_cookies,
                   cookie_src>>

NextCookies ==
    \/ LoadCookieFile
    \/ TranslateCookie
    \/ AddCookies

SpecCookies == CookiesInit /\ [][NextCookies]_vars

----------------------------------------------------------------------------
\* Properties of the orchestrator loop

\* The sheet row of the j-th URL that read_urls kept: its position in the
\* range counted from the start row
KeptPositions(values) ==
    LET S == { k \in 1..Len(values) :
                 values[k] # <<>> /\ Strip(values[k][1]) # <<>> }
    IN  [j \in 1..Cardinality(S) |->
           CHOOSE k \in S : Cardinality({ m \in S : m < k }) = j - 1]

SourceRow(j) == URL_RANGE.row + KeptPositions(colB)[j] - 1

\* A row is in progress or has just been completed
InLoop == current_loop_index > 0 /\ main_exit \in {"none", "loop_done"}

\* The row in progress has run to its end and the loop is about to go on
RowCompleted == pc = "for" /\ current_loop_index > 0

\* The loop ran over the whole list and main went on to its summary
LoopCompleted == main_exit = "loop_done" /\ pc \in {"finally", "summary"}

\* C1: when the loop has visited all rows (the six outcomes: invalid URL,
\* already processed, capture failure, upload failure, sheet-write failure,
\* success), total = successful + skipped + failed, and every completed row
\* has been counted in exactly one counter, exactly once.
C1_CountersAddUp ==
    /\ LoopCompleted =>
         /\ total_urls = Len(urls_to_process)
         /\ total_urls =
              successful_screenshots + skipped_urls + failed_screenshots
    /\ RowCompleted =>
         /\ (successful_screenshots - row.base_successful)
              + (skipped_urls - row.base_skipped)
              + (failed_screenshots - row.base_failed) = 1
         /\ successful_screenshots + skipped_urls + failed_screenshots
              = current_loop_index

\* C1 witness: three rows, one success, one skipped, one failed capture
C1_Witness ==
    /\ pc = "summary"
    /\ main_exit = "loop_done"
    /\ total_urls = 3
    /\ successful_screenshots = 1
    /\ skipped_urls = 1
    /\ failed_screenshots = 1
    /\ row.outcome = "capture_failed"

\* C2: no retries and no per-row failure stops the run: capture, upload and
\* sheet write are each called at most once for a row, and when main reaches
\* its summary after the loop started, every row of the list was visited.
C2_NoRetryEveryRowVisited ==
    /\ row.capture <= 1 /\ row.upload <= 1 /\ row.write <= 1
    /\ (pc = "summary" /\ main_exit \in {"loop_done", "exception"}) =>
         current_loop_index = Len(urls_to_process)

\* The processed pattern as the specification words it: the cell holds a
\* string that starts with https://drive.google.com
StartsWithDriveLink(values) ==
    /\ values # <<>>
    /\ values[1] # <<>>
    /\ values[1][1] = "https://drive.google.com"

\* The row in progress touched no external service
NothingInvoked == row.capture = 0 /\ row.upload = 0 /\ row.write = 0

HasHttpScheme(u) ==
    \E k \in 1..Len(u) :
       /\ u[k] \in {"http://", "https://"}
       /\ \A m \in 1..(k - 1) : u[m] = SPACE

\* Rows of the URL range that are blank or carry another scheme
InvalidSheetRows ==
    { k \in 1..Len(colB) : colB[k] = <<>> \/ ~HasHttpScheme(colB[k][1]) }

\* C4 as stated: every sheet row whose URL is empty or has a scheme other
\* than http(s) is counted as failed, and capture is never invoked for it.
C4_InvalidRowsCountedFailed ==
    /\ LoopCompleted => failed_screenshots >= Cardinality(InvalidSheetRows)
    /\ (InLoop /\ ~HasHttpScheme(row.url)) => row.capture = 0

\* C5 as stated: when the loop moves on from a row, no file produced for the
\* row is left in the screenshots directory.
C5_NoFileLeftAfterRow ==
    RowCompleted =>
       \A kind \in {"shot", "error"} : <<current_loop_index, kind>> \notin files

\* C5 amended: when the loop moves on from a row, the artifact at
\* screenshot_path is left only if os.remove was called on it and raised; the
\* error-state screenshot of a failed capture stays.
C5_ArtifactLeftOnlyByFailedDelete ==
    RowCompleted =>
       /\ <<current_loop_index, "shot">> \in files => row.delete = 1
       /\ <<current_loop_index, "error">> \in files =>
            row.outcome = "capture_failed"

\* C5 witness: a row failed at the sheet write after its file was created,
\* and the file is gone when the loop moves on
C5_Witness ==
    /\ RowCompleted
    /\ row.outcome = "write_failed"
    /\ row.delete = 1
    /\ <<current_loop_index, "shot">> \notin files

\* C6: upload and record-link are one step after a successful capture: the
\* sheet write is attempted only after the upload returned, the row is
\* counted successful only if both succeeded, it is counted failed exactly
\* once if either failed, and the delete is attempted afterwards in all
\* three cases.
C6_UploadThenRecordLink ==
    InLoop =>
       /\ row.upload > 0 => (row.capture = 1 /\ screenshot_success)
       /\ row.write > 0 => row.upload_ok
       /\ successful_screenshots - row.base_successful \in {0, 1}
       /\ successful_screenshots - row.base_successful = 1 =>
            (row.upload_ok /\ row.write_ok)
       /\ (pc \in {"cleanup", "delay", "for"} /\ row.upload > 0) =>
            IF row.upload_ok /\ row.write_ok
            THEN /\ successful_screenshots - row.base_successful = 1
                 /\ failed_screenshots = row.base_failed
            ELSE /\ successful_screenshots = row.base_successful
                 /\ failed_screenshots - row.base_failed = 1
       /\ (pc \in {"delay", "for"} /\ row.upload > 0) => row.delete = 1

\* C6 witness: the upload succeeded, the sheet write failed, the row was
\* counted failed and the delete was attempted
C6_Witness ==
    /\ pc = "delay"
    /\ row.upload_ok
    /\ row.write = 1
    /\ ~row.write_ok
    /\ row.delete = 1
    /\ failed_screenshots - row.base_failed = 1

\* C7 as stated: a run over n rows performs exactly n - 1 delays, one after
\* every row but the last, whatever the row's outcome.
C7_DelayBetweenEveryPair ==
    /\ LoopCompleted => delays = total_urls - 1
    /\ (RowCompleted /\ current_loop_index < total_urls) => row.slept

\* The positions inside take_playwright_screenshot
CapturePcs == {"new_page", "goto", "consent_click", "dimensions", "screenshot",
               "capture_except", "capture_finally"}

\* C8: every page take_playwright_screenshot opened is closed when the call
\* returns, on every outcome: at most one page is open at any point of the
\* run and none is open outside the call.
C8_PageClosedOnReturn ==
    /\ open_pages \in {0, 1}
    /\ pc \notin CapturePcs => open_pages = 0
    /\ pc = "captured" => page \in {"None", "closed"}

\* C8 witness: the call returned after a capture timeout on an opened page
C8_Witness ==
    /\ pc = "captured"
    /\ call.new_page = "ok"
    /\ call.shot = "timeout"
    /\ page = "closed"
    /\ open_pages = 0

\* The call failed in page creation, navigation or the full-page capture
NavigationOrCaptureFailed ==
    \/ call.new_page \in {"timeout", "error"}
    \/ call.goto \in {"timeout", "error", "closed"}
    \/ call.shot \in {"timeout", "error"}

\* C9: take_playwright_screenshot reports failure exactly when page creation,
\* navigation or the full-page capture failed; a failure of the consent click
\* or of the dimension probe never does; and the call returns to main: no
\* exception of a call in progress reaches main's except clause.
C9_FailureOnlyFromNavigationOrCapture ==
    /\ pc = "captured" => (screenshot_success <=> ~NavigationOrCaptureFailed)
    /\ pc = "except_main" => call = FreshCall
    /\ (pc \in CapturePcs \cup {"captured"}) => main_exit = "none"

\* C9 witness: the click timed out, the probe failed, and the call returned
\* True
C9_Witness ==
    /\ pc = "captured"
    /\ call.click = "timeout"
    /\ call.probe = "error"
    /\ screenshot_success

\* C12: for every URL the loop processes, the sheet row used for the marker
\* check and for the link write is the sheet row the URL was read from,
\* whatever the range holds, blank cells between URLs included.
C12_RowUsedIsRowRead ==
    pc \in {"check_processed", "update_sheet"} =>
        row.sheet_row = SourceRow(current_loop_index)

\* C13: on every path by which main reaches its final-summary step (service
\* or browser initialisation raising, an empty URL list, an unparsable
\* URL_RANGE, an exception inside the loop, normal loop completion), the
\* browser and the Playwright manager that were started are closed and the
\* summary is emitted with a defined value for each of total, successful,
\* skipped and failed.
C13_SummaryDefinedOnEveryPath ==
    pc \in {"summary", "unbound_error"} =>
        /\ browser # "running"
        /\ playwright_manager # "running"
        /\ locals_bound
        /\ pc = "summary"

\* C14: within a run, a sheet cell is written only as the single
\* marker-column cell of a row whose capture and upload both succeeded, with
\* the link that row's upload returned; and a marker cell that already holds
\* a value matching the processed pattern is never overwritten, a failed read
\* of that cell included.
C14_WriteOnlyUnprocessedMarkerOfUploadedRow ==
    [][colC' # colC =>
          /\ \A r \in DOMAIN colC : r # row.sheet_row => colC'[r] = colC[r]
          /\ row.write = 0
          /\ screenshot_success
          /\ row.upload_ok
          /\ colC'[row.sheet_row] = <<web_link>>
          /\ ~LooksProcessed(colC[row.sheet_row])]_vars

----------------------------------------------------------------------------
\* Properties of the cookie translator

\* The policy table of the specification: source sameSite, secure flag,
\* resulting sameSite
PolicyTable ==
    { <<"strict", "any", "Strict">>, <<"lax", "any", "Lax">>,
      <<"none", "any", "None">>, <<"null", "true", "None">>,
      <<"null", "false", "Lax">> }

\* The table row a source record falls under ("no row" when the table says
\* nothing about it): strings are compared letter by letter whatever the case
TableKey(sc) ==
    CASE sc.sameSite \in {"strict", "Strict"} -> <<"strict", "any">>
      [] sc.sameSite \in {"LAX"}              -> <<"lax", "any">>
      [] sc.sameSite \in {"None"}             -> <<"none", "any">>
      [] sc.sameSite \in {"ABSENT", "NULL"} /\ sc.secure = "true"
                                              -> <<"null", "true">>
      [] sc.sameSite \in {"ABSENT", "NULL"} /\ sc.secure \in {"false", "ABSENT"}
                                              -> <<"null", "false">>
      [] OTHER                                -> <<"no row", "no row">>

\* C10: every translated cookie has the sameSite the policy table gives for
\* its source record: strict/lax/none in any letter case give Strict/Lax/None
\* whatever the secure flag; an absent or null sameSite gives None when secure
\* is true and Lax when secure is false or absent.
C10_SameSiteFollowsTable ==
    /\ Len(cookie_src) = Len(playwright_cookies)
    /\ \A k \in 1..Len(playwright_cookies) :
         LET key == TableKey(cookie_src[k]) IN
         key[1] # "no row" =>
            <<key[1], key[2], playwright_cookies[k].sameSite>> \in PolicyTable

\* C10 witness: a null sameSite on a secure cookie became None, and an
\* upper-case "LAX" became Lax
C10_Witness ==
    /\ cookie_pc = "done"
    /\ Len(playwright_cookies) = 2
    /\ cookie_src[1].sameSite = "NULL"
    /\ cookie_src[1].secure = "true"
    /\ playwright_cookies[1].sameSite = "None"
    /\ cookie_src[2].sameSite = "LAX"
    /\ playwright_cookies[2].sameSite = "Lax"

\* A record has a name when the "name" key holds a non-empty string, and has
\* a value when the "value" key holds anything but null (the empty string is
\* a value a cookie can carry)
HasNameAndValue(sc) ==
    /\ sc.name \notin {"ABSENT", "NULL", ""}
    /\ sc.value \notin {"ABSENT", "NULL"}

\* The records among the first n of the file that have a name and a value,
\* in file order
RECURSIVE WithNameAndValue(_)
WithNameAndValue(n) ==
    IF n = 0 THEN <<>>
    ELSE IF HasNameAndValue(selenium_cookies[n])
         THEN Append(WithNameAndValue(n - 1), selenium_cookies[n])
         ELSE WithNameAndValue(n - 1)

\* C11: the translator's output holds exactly the input records that have
\* both a name and a value, in input order: after any number of records has
\* been read, the output has one cookie per such record read so far, in the
\* same order and with that record's name and value; records missing a name
\* or a value are left out and none that has both is dropped.
C11_OutputIsRecordsWithNameAndValue ==
    /\ cookie_src = WithNameAndValue(cookie_pos)
    /\ Len(playwright_cookies) = Len(cookie_src)
    /\ \A k \in 1..Len(playwright_cookies) :
         /\ playwright_cookies[k].name = cookie_src[k].name
         /\ playwright_cookies[k].value = cookie_src[k].value

\* C11 witness: a file of a record without a name followed by a record with
\* a name and an empty value was translated to the second record alone
C11_Witness ==
    /\ cookie_pc = "done"
    /\ Len(selenium_cookies) = 2
    /\ cookie_pos = 2
    /\ selenium_cookies[1].name = ""
    /\ selenium_cookies[2].name = "sid"
    /\ selenium_cookies[2].value = ""
    /\ Len(playwright_cookies) = 1
    /\ playwright_cookies[1].name = "sid"
    /\ playwright_cookies[1].value = ""

====
